---- MODULE Spec2Model ----
(***************************************************************************)
(* Model of the openshift-upgrade controller (src/src/main.rs): the        *)
(* reconcile loop of main() and the decision of apply_available_update(),  *)
(* run against a cluster whose ClusterVersion object changes concurrently. *)
(*                                                                         *)
(* Option<T> is a sequence of length at most one: <<>> is None and <<x>>   *)
(* is Some(x).                                                             *)
(***************************************************************************)
EXTENDS Integers, Sequences, FiniteSets, TLC

VARIABLES
    options,     \* Options parsed at startup: [force]
    pc,          \* position of main(): start, poll, read, check, apply, end, exited
    cluster,     \* Option<ClusterVersion>: the object named "version" on the API server
    others,      \* objects the list returns before it (normally none)
    reflector,   \* the reflector's cache: what reflector.read() returns
    version,     \* Option<ClusterVersion>: the local `version` of this cycle
    sent,        \* client.patch() requests made in this cycle
    log,         \* log events of this cycle: [level, msg]
    calls,       \* collaborator calls of this cycle, in order
    ret,         \* result of apply_available_update in this cycle: none, Ok, Err
    outcome,     \* how the cycle ended
    failed       \* history: the submission that failed in the last cycle that read
                 \* a resource, with the availableUpdates it was selected from

vars == <<options, pc, cluster, others, reflector, version, sent, log, calls, ret, outcome,
          failed>>

(***************************************************************************)
(* Bounds of the model.                                                    *)
(***************************************************************************)
MaxUpdates == 3     \* longest status.availableUpdates
MaxHistory == 2     \* status.history entries kept by the cluster

(***************************************************************************)
(* Option helpers.                                                         *)
(***************************************************************************)
None == <<>>
Some(x) == <<x>>
IsSome(o) == Len(o) = 1
IsNone(o) == Len(o) = 0

(***************************************************************************)
(* semver::Version and its precedence (Ord for Version, semver 0.9):       *)
(* major, minor, patch, then pre-release; build metadata is ignored.       *)
(* An identifier is Numeric(num) or AlphaNumeric(str), str as byte codes.  *)
(***************************************************************************)
Numeric(n) == [numeric |-> TRUE, num |-> n, str |-> <<>>]
AlphaNumeric(s) == [numeric |-> FALSE, num |-> 0, str |-> s]

Version(major, minor, patch, pre) ==
    [major |-> major, minor |-> minor, patch |-> patch, pre |-> pre]

CmpInt(a, b) == IF a < b THEN "Less" ELSE IF a > b THEN "Greater" ELSE "Equal"

RECURSIVE CmpBytes(_, _)
CmpBytes(s, t) ==
    IF s = <<>> /\ t = <<>> THEN "Equal"
    ELSE IF s = <<>> THEN "Less"
    ELSE IF t = <<>> THEN "Greater"
    ELSE IF CmpInt(Head(s), Head(t)) # "Equal" THEN CmpInt(Head(s), Head(t))
    ELSE CmpBytes(Tail(s), Tail(t))

\* derive(Ord) on enum Identifier { Numeric(u64), AlphaNumeric(String) }
CmpIdentifier(a, b) ==
    IF a.numeric /\ b.numeric THEN CmpInt(a.num, b.num)
    ELSE IF a.numeric THEN "Less"
    ELSE IF b.numeric THEN "Greater"
    ELSE CmpBytes(a.str, b.str)

\* Ord for Vec<Identifier>: lexicographic
RECURSIVE CmpIdentifiers(_, _)
CmpIdentifiers(s, t) ==
    IF s = <<>> /\ t = <<>> THEN "Equal"
    ELSE IF s = <<>> THEN "Less"
    ELSE IF t = <<>> THEN "Greater"
    ELSE IF CmpIdentifier(Head(s), Head(t)) # "Equal"
         THEN CmpIdentifier(Head(s), Head(t))
    ELSE CmpIdentifiers(Tail(s), Tail(t))

\* A version with a pre-release precedes the same version without one.
CmpPre(s, t) ==
    IF s = <<>> /\ t = <<>> THEN "Equal"
    ELSE IF s = <<>> THEN "Greater"
    ELSE IF t = <<>> THEN "Less"
    ELSE CmpIdentifiers(s, t)

VersionCmp(a, b) ==
    IF CmpInt(a.major, b.major) # "Equal" THEN CmpInt(a.major, b.major)
    ELSE IF CmpInt(a.minor, b.minor) # "Equal" THEN CmpInt(a.minor, b.minor)
    ELSE IF CmpInt(a.patch, b.patch) # "Equal" THEN CmpInt(a.patch, b.patch)
    ELSE CmpPre(a.pre, b.pre)

\* A plausible slip: the patch component is left out of the comparison.
ClusterUpdateCmpNoPatch(a, b) ==
    IF CmpInt(a.version.major, b.version.major) # "Equal"
    THEN CmpInt(a.version.major, b.version.major)
    ELSE CmpInt(a.version.minor, b.version.minor)

\* impl Ord for ClusterUpdate: by version alone
ClusterUpdateCmp(a, b) == VersionCmp(a.version, b.version)

\* Iterator::max(): a fold that keeps the later element unless the earlier
\* one is strictly greater, so the last of several maxima is returned.
RECURSIVE MaxFold(_, _)
MaxFold(x, rest) ==
    IF rest = <<>> THEN x
    ELSE MaxFold(IF ClusterUpdateCmp(x, Head(rest)) = "Greater" THEN x ELSE Head(rest),
                 Tail(rest))

\* A plausible slip: a maximum that keeps the first of several equal maxima
\* (as a hand-written loop with `>` would).
RECURSIVE MaxFoldFirst(_, _)
MaxFoldFirst(x, rest) ==
    IF rest = <<>> THEN x
    ELSE MaxFoldFirst(IF ClusterUpdateCmp(Head(rest), x) = "Greater" THEN Head(rest) ELSE x,
                      Tail(rest))

IterMaxFirst(updates) ==
    IF updates = <<>> THEN None ELSE Some(MaxFoldFirst(Head(updates), Tail(updates)))

IterMax(updates) ==
    IF updates = <<>> THEN None ELSE Some(MaxFold(Head(updates), Tail(updates)))

(***************************************************************************)
(* The data model (main.rs 37-81) and the values the model draws from.     *)
(***************************************************************************)
ClusterUpdate(force, image, ver) == [force |-> force, image |-> image, version |-> ver]

HistoricalEntry(completion_time) == [completion_time |-> completion_time]

ClusterVersionSpec(desired_update) == [desired_update |-> desired_update]

ClusterVersionStatus(available_updates, history) ==
    [available_updates |-> available_updates, history |-> history]

ClusterVersion(types, metadata, spec, status) ==
    [types |-> types, metadata |-> metadata, spec |-> spec, status |-> status]

TypeMeta == [apiVersion |-> "config.openshift.io/v1", kind |-> "ClusterVersion"]

\* Updates the update service may advertise: the spec's example versions
\* (4.1.0, 4.2.0, 4.1.5), a second image for 4.2.0 and a release candidate.
Catalogue ==
    { ClusterUpdate(FALSE, "img-410",  Version(4, 1, 0, <<>>)),
      ClusterUpdate(TRUE,  "img-420",  Version(4, 2, 0, <<>>)),
      ClusterUpdate(FALSE, "img-415",  Version(4, 1, 5, <<>>)),
      ClusterUpdate(FALSE, "img-420b", Version(4, 2, 0, <<>>)),
      ClusterUpdate(FALSE, "img-rc",   Version(4, 2, 0, <<AlphaNumeric(<<114, 99>>), Numeric(1)>>)) }

\* status.availableUpdates: sequences of distinct catalogue entries
AvailableSeqs ==
    { s \in UNION { [1..n -> Catalogue] : n \in 0..MaxUpdates } :
        \A i, j \in DOMAIN s : s[i] = s[j] => i = j }

\* spec.desiredUpdate already on the object when the controller starts
InitDesired == { None, Some(ClusterUpdate(FALSE, "img-420", Version(4, 2, 0, <<>>))) }

InitStatus ==
    { None } \cup
    { Some(ClusterVersionStatus(a, <<>>)) :
        a \in { None } \cup { Some(s) : s \in AvailableSeqs } }

InitCluster ==
    { None } \cup
    { Some(ClusterVersion(TypeMeta, [name |-> "version", uid |-> "cv"],
                          ClusterVersionSpec(d), st)) :
        d \in InitDesired, st \in InitStatus }

\* A second object of the list, returned before the real one: it has an
\* update in progress and advertises 4.2.0.
Stray ==
    ClusterVersion(TypeMeta, [name |-> "version", uid |-> "stray"],
                   ClusterVersionSpec(None),
                   Some(ClusterVersionStatus(
                       Some(<<ClusterUpdate(TRUE, "img-420", Version(4, 2, 0, <<>>))>>),
                       <<HistoricalEntry(None)>>)))

InitOthers == { <<>>, <<Stray>> }

\* main.rs 75-79: completionTime is absent while the update of the most
\* recent history entry is still running.
Progressing(v) ==
    /\ IsSome(v.status)
    /\ Len(v.status[1].history) > 0
    /\ v.status[1].history[1].completion_time = None

\* What a list of the watched objects returns.
List == others \o cluster

LogEvent(level, msg) == [level |-> level, msg |-> msg]

(***************************************************************************)
(* The decision (main.rs 123-130 and 141-172) as functions of the snapshot.*)
(***************************************************************************)
\* A plausible slip: the oldest history entry is inspected, not the newest.
UpdateInProgressLast(v) ==
    /\ IsSome(v.status)
    /\ v.status[1].history # <<>>
    /\ IsNone(v.status[1].history[Len(v.status[1].history)].completion_time)

\* A plausible slip: the completion test is inverted (is_some for is_none).
UpdateInProgressInverted(v) ==
    /\ IsSome(v.status)
    /\ v.status[1].history # <<>>
    /\ IsSome(Head(v.status[1].history).completion_time)

\* main.rs 123-130: status present, history.first() has no completion_time
UpdateInProgress(v) ==
    /\ IsSome(v.status)
    /\ v.status[1].history # <<>>
    /\ IsNone(Head(v.status[1].history).completion_time)

\* main.rs 148: version.status.and_then(|status| status.available_updates)
AvailableUpdates(v) ==
    IF IsNone(v.status) THEN None ELSE v.status[1].available_updates

\* A plausible slip: the first candidate is taken instead of the maximum.
SelectFirst(v) ==
    IF IsNone(AvailableUpdates(v)) \/ AvailableUpdates(v)[1] = <<>> THEN None
    ELSE Some(Head(AvailableUpdates(v)[1]))

\* main.rs 148-151: the update to request, None when there is nothing to do
SelectUpdate(v) ==
    IF IsNone(AvailableUpdates(v)) THEN None ELSE IterMax(AvailableUpdates(v)[1])

\* A plausible slip: the candidate's own force value is kept.
ForcedKeep(update, opts) == update

\* main.rs 154: update.force = options.force
Forced(update, opts) == [update EXCEPT !.force = opts.force]

\* A plausible slip: the patch is built with fresh metadata instead of the
\* metadata of the object that was read.
PatchBodyFreshMetadata(v, update) ==
    ClusterVersion(v.types, [name |-> "version", uid |-> ""],
                   ClusterVersionSpec(Some(update)), None)

\* A plausible slip: the status that was read is sent back.
PatchBodyWithStatus(v, update) ==
    ClusterVersion(v.types, v.metadata, ClusterVersionSpec(Some(update)), v.status)

\* main.rs 159-166: the object serialized as the patch
PatchBody(v, update) ==
    ClusterVersion(v.types, v.metadata, ClusterVersionSpec(Some(update)), None)

\* main.rs 156-168: the request handed to client.patch
PatchRequest(v, update) == [name |-> "version", body |-> PatchBody(v, update)]

\* A plausible slip: having nothing to apply is reported as an error.
ApplyReturnStrict(update, patched) ==
    IF IsNone(update) \/ ~patched THEN "Err" ELSE "Ok"

\* main.rs 150, 168, 171: the Result of apply_available_update, given the
\* selected update and whether client.patch succeeded
ApplyReturn(update, patched) ==
    IF IsSome(update) /\ ~patched THEN "Err" ELSE "Ok"

\* A plausible slip: the error line is written whatever the result was.
LogApplyErrorAlways(r) == <<LogEvent("error", "Failed to apply update")>>

\* main.rs 132-134: main() logs the error of apply_available_update
LogApplyError(r) ==
    IF r = "Err" THEN <<LogEvent("error", "Failed to apply update")>> ELSE <<>>

(***************************************************************************)
(* Initial state: the process has not started; the cluster is in any of    *)
(* the states above.                                                       *)
(***************************************************************************)
Init ==
    /\ options \in [force : BOOLEAN]
    /\ pc = "start"
    /\ cluster \in InitCluster
    /\ others \in InitOthers
    /\ reflector = <<>>
    /\ version = None
    /\ sent = <<>>
    /\ log = <<>>
    /\ calls = <<>>
    /\ ret = "none"
    /\ outcome = "none"
    /\ failed = None

cycleVars == <<version, sent, log, calls, ret, outcome>>

(***************************************************************************)
(* main(): startup (main.rs 84-107).  Loading the configuration or the     *)
(* reflector's first list may fail, and `?` then ends the process.         *)
(***************************************************************************)
StartupOk ==
    /\ pc = "start"
    /\ reflector' = List
    /\ pc' = "poll"
    /\ UNCHANGED <<failed, options, cluster, others, cycleVars>>

StartupFail ==
    /\ pc = "start"
    /\ pc' = "exited"
    /\ UNCHANGED <<failed, options, cluster, others, reflector, cycleVars>>

(***************************************************************************)
(* main(): one cycle of the loop (main.rs 108-138).                        *)
(***************************************************************************)
\* A plausible slip: a failed poll skips the rest of the cycle.
AfterPollSkipOnError(ok) == IF ok THEN "read" ELSE "end"

\* main.rs 109-113: whatever poll() returned, main() goes on to read()
AfterPoll(ok) == "read"

\* main.rs 109: reflector.poll() succeeded, the cache holds the current list
PollOk ==
    /\ pc = "poll"
    /\ reflector' = List
    /\ calls' = Append(calls, "poll")
    /\ pc' = AfterPoll(TRUE)
    /\ UNCHANGED <<failed, options, cluster, others, version, sent, log, ret, outcome>>

\* main.rs 109-111: poll failed; logged, the cache keeps what it had
PollErr ==
    /\ pc = "poll"
    /\ log' = Append(log, LogEvent("error", "Failed to poll reflector"))
    /\ calls' = Append(calls, "poll")
    /\ pc' = AfterPoll(FALSE)
    /\ UNCHANGED <<failed, options, cluster, others, reflector, version, sent, ret, outcome>>

\* A plausible slip: the first element of the list is taken.
PopFirst(versions) == Head(versions)

\* main.rs 115: versions.pop() on a non-empty Vec yields its last element
Pop(versions) == versions[Len(versions)]

\* A plausible slip: a failed submission is tried again within the cycle.
AfterCycleRetryOnError(o) == IF o = "submit_failed" THEN "apply" ELSE "end"

\* A plausible slip: an empty read ends the loop.
AfterCycleExitOnEmpty(o) == IF o = "no_resource" THEN "exited" ELSE "end"

\* A plausible slip: `?` on the result of apply_available_update, so that a
\* failed submission returns from main().
AfterCycleAbortOnError(o) == IF o = "submit_failed" THEN "exited" ELSE "end"

\* main.rs 119, 127, 133-138: where main() goes after a cycle with the given
\* outcome: always to the end of the loop body, never out of the loop.
AfterCycle(o) == "end"

\* main.rs 136: reflector.read() failed
ReadErr ==
    /\ pc = "read"
    /\ calls' = Append(calls, "read")
    /\ log' = Append(log, LogEvent("error", "Failed to read ClusterVersion"))
    /\ outcome' = "read_failed"
    /\ pc' = AfterCycle("read_failed")
    /\ UNCHANGED <<failed, options, cluster, others, reflector, version, sent, ret>>

\* main.rs 113-121: read succeeded, versions.pop() takes the last element
ReadOk ==
    /\ pc = "read"
    /\ calls' = Append(calls, "read")
    /\ IF reflector = <<>>
       THEN /\ log' = Append(log, LogEvent("error", "Unable to find ClusterVersion"))
            /\ outcome' = "no_resource"
            /\ pc' = AfterCycle("no_resource")
            /\ UNCHANGED version
       ELSE /\ version' = Some(Pop(reflector))
            /\ pc' = "check"
            /\ UNCHANGED <<log, outcome>>
    /\ UNCHANGED <<failed, options, cluster, others, reflector, sent, ret>>

\* main.rs 123-130: skip the cycle while an update is in progress
Check ==
    /\ pc = "check"
    /\ IF UpdateInProgress(version[1])
       THEN /\ log' = Append(log, LogEvent("debug", "Waiting for update to complete..."))
            /\ outcome' = "in_progress"
            /\ pc' = AfterCycle("in_progress")
       ELSE /\ pc' = "apply"
            /\ UNCHANGED <<log, outcome>>
    /\ UNCHANGED <<failed, options, cluster, others, reflector, version, sent, calls, ret>>

\* main.rs 132, 146-151, 153, 171: apply_available_update with nothing to apply
ApplyNothing ==
    /\ pc = "apply"
    /\ IsNone(SelectUpdate(version[1]))
    /\ ret' = ApplyReturn(None, FALSE)
    /\ log' = Append(log, LogEvent("trace", "status")) \o LogApplyError(ret')
    /\ outcome' = "nothing_to_do"
    /\ pc' = AfterCycle("nothing_to_do")
    /\ UNCHANGED <<failed, options, cluster, others, reflector, version, sent, calls>>

\* main.rs 132, 146-171: the patch is accepted; the API server merges
\* spec.desiredUpdate into the object named in the request
ApplyPatchOk ==
    /\ pc = "apply"
    /\ IsSome(SelectUpdate(version[1]))
    /\ IsSome(cluster)
    /\ LET update == Forced(SelectUpdate(version[1])[1], options)
           req == PatchRequest(version[1], update)
       IN /\ sent' = Append(sent, req)
          /\ cluster' = Some([cluster[1] EXCEPT !.spec = req.body.spec])
    /\ ret' = ApplyReturn(SelectUpdate(version[1]), TRUE)
    /\ log' = log \o <<LogEvent("trace", "status"),
                       LogEvent("info", "Attempting to update")>> \o LogApplyError(ret')
    /\ calls' = Append(calls, "patch")
    /\ outcome' = "submitted"
    /\ pc' = AfterCycle("submitted")
    /\ UNCHANGED <<failed, options, others, reflector, version>>

\* main.rs 132-134, 146-168: the patch is refused or lost; `?` returns the
\* error and main() logs it
ApplyPatchErr ==
    /\ pc = "apply"
    /\ IsSome(SelectUpdate(version[1]))
    /\ LET update == Forced(SelectUpdate(version[1])[1], options)
       IN sent' = Append(sent, PatchRequest(version[1], update))
    /\ ret' = ApplyReturn(SelectUpdate(version[1]), FALSE)
    /\ log' = log \o <<LogEvent("trace", "status"),
                       LogEvent("info", "Attempting to update")>> \o LogApplyError(ret')
    /\ calls' = Append(calls, "patch")
    /\ outcome' = "submit_failed"
    /\ pc' = AfterCycle("submit_failed")
    /\ UNCHANGED <<failed, options, cluster, others, reflector, version>>

\* main.rs 108, 119, 127, 138: `continue` or the end of the body; the
\* locals of the cycle are dropped
Loop ==
    /\ pc = "end"
    /\ pc' = "poll"
    /\ version' = None
    /\ sent' = <<>>
    /\ log' = <<>>
    /\ calls' = <<>>
    /\ ret' = "none"
    /\ outcome' = "none"
    /\ failed' = IF outcome = "submit_failed"
                 THEN Some([available_updates |-> AvailableUpdates(version[1]),
                            request |-> sent[1]])
                 ELSE IF outcome = "read_failed" THEN failed ELSE None
    /\ UNCHANGED <<options, cluster, others, reflector>>

(***************************************************************************)
(* The cluster side: the cluster-version operator starts and completes     *)
(* updates, recording them most recent first in status.history.            *)
(***************************************************************************)
Prune(h) == IF Len(h) > MaxHistory THEN SubSeq(h, 1, MaxHistory) ELSE h

CvoStart ==
    /\ IsSome(cluster)
    /\ IsSome(cluster[1].status)
    /\ ~Progressing(cluster[1])
    /\ cluster' = Some([cluster[1] EXCEPT !.status[1].history =
                            Prune(<<HistoricalEntry(None)>> \o @)])
    /\ UNCHANGED <<failed, options, pc, others, reflector, cycleVars>>

CvoComplete ==
    /\ IsSome(cluster)
    /\ Progressing(cluster[1])
    /\ cluster' = Some([cluster[1] EXCEPT !.status[1].history[1] =
                            HistoricalEntry(Some("t"))])
    /\ UNCHANGED <<failed, options, pc, others, reflector, cycleVars>>

Controller ==
    \/ PollOk \/ PollErr \/ ReadOk \/ ReadErr \/ Check
    \/ ApplyNothing \/ ApplyPatchOk \/ ApplyPatchErr \/ Loop

Next ==
    \/ StartupOk \/ StartupFail
    \/ PollOk \/ PollErr \/ ReadOk \/ ReadErr \/ Check
    \/ ApplyNothing \/ ApplyPatchOk \/ ApplyPatchErr \/ Loop
    \/ CvoStart \/ CvoComplete

Spec == Init /\ [][Next]_vars

\* The loop is sequential code: a step of main() that can be taken is taken.
\* Progress does not depend on which candidates are advertised, only on
\* whether there is one, so the fair runs start from at most one candidate.
InitFair ==
    /\ Init
    /\ IsSome(cluster) /\ IsSome(AvailableUpdates(cluster[1]))
            => Len(AvailableUpdates(cluster[1])[1]) <= 1

FairSpec == InitFair /\ [][Next]_vars /\ WF_vars(Controller)

(***************************************************************************)
(* Properties.                                                             *)
(***************************************************************************)
CycleOutcomes ==
    { "read_failed", "no_resource", "in_progress", "nothing_to_do",
      "submit_failed", "submitted" }

PollFailed == log # <<>> /\ log[1] = LogEvent("error", "Failed to poll reflector")

NewCycle == pc = "poll" /\ outcome = "none" /\ log = <<>>

\* The update a patch request asks for.
Requested(req) == req.body.spec.desired_update[1]

\* The candidates of the snapshot read in this cycle (empty when absent).
Candidates ==
    IF IsSome(version) /\ IsSome(AvailableUpdates(version[1]))
    THEN AvailableUpdates(version[1])[1] ELSE <<>>

AtLeast(a, b) == VersionCmp(a, b) \in {"Greater", "Equal"}

\* C1: the update placed in a patch has the version and image of one of the
\* candidates read in the cycle, and its version is greater than or equal to
\* the version of every candidate.
C1_SelectionCorrect ==
    \A i \in DOMAIN sent :
        /\ \E k \in DOMAIN Candidates :
               /\ Candidates[k].version = Requested(sent[i]).version
               /\ Candidates[k].image = Requested(sent[i]).image
        /\ \A k \in DOMAIN Candidates :
               AtLeast(Requested(sent[i]).version, Candidates[k].version)

\* three candidates, the greatest of them neither first nor last
C1_Witness ==
    /\ Len(sent) = 1
    /\ Len(Candidates) = 3
    /\ Requested(sent[1]).image = Candidates[2].image
    /\ VersionCmp(Candidates[2].version, Candidates[1].version) = "Greater"
    /\ VersionCmp(Candidates[2].version, Candidates[3].version) = "Greater"

\* C2: in a cycle whose snapshot has a non-empty history with no
\* completionTime on its first entry, no patch is submitted, whatever
\* availableUpdates holds.
C2_InProgressSuppression ==
    (IsSome(version) /\ Progressing(version[1]))
        => (sent = <<>> /\ \A i \in DOMAIN calls : calls[i] # "patch")

C2_Witness ==
    /\ pc = "end"
    /\ IsSome(version) /\ Progressing(version[1])
    /\ Len(version[1].status[1].history) = 2
    /\ IsSome(version[1].status[1].history[2].completion_time)
    /\ Len(Candidates) > 0

\* C3: the controller never submits a patch while the cluster's actual
\* object has an update in progress.
C3_NeverInterrupt ==
    [][Len(sent') > Len(sent) => ~(IsSome(cluster) /\ Progressing(cluster[1]))]_vars

\* C4: the version requested in a patch is not lower than the version in
\* spec.desiredUpdate of the snapshot read in that cycle, when present.
C4_NeverRegress ==
    \A i \in DOMAIN sent :
        IsSome(version[1].spec.desired_update)
            => AtLeast(Requested(sent[i]).version,
                       version[1].spec.desired_update[1].version)

\* C5: no patch requests an update whose version already equals
\* spec.desiredUpdate.version of the snapshot read in that cycle.
C5_NeverDoubleApply ==
    \A i \in DOMAIN sent :
        IsSome(version[1].spec.desired_update)
            => Requested(sent[i]).version # version[1].spec.desired_update[1].version

Example == <<Version(4, 1, 0, <<>>), Version(4, 2, 0, <<>>), Version(4, 1, 5, <<>>)>>

\* C6: a cycle that read a resource with no update in progress and a
\* non-empty availableUpdates ends with exactly one patch submitted, asking
\* for a candidate of maximum version (4.2.0 for 4.1.0, 4.2.0, 4.1.5).
C6_IdleLeadsToRequest ==
    (pc = "end" /\ IsSome(version) /\ ~Progressing(version[1]) /\ Len(Candidates) > 0)
        => /\ Len(sent) = 1
           /\ outcome \in {"submitted", "submit_failed"}
           /\ \A k \in DOMAIN Candidates :
                  VersionCmp(Candidates[k].version, Requested(sent[1]).version) # "Greater"
           /\ [k \in DOMAIN Candidates |-> Candidates[k].version] = Example
                  => Requested(sent[1]).version = Version(4, 2, 0, <<>>)

C6_Witness ==
    /\ pc = "end" /\ IsSome(version) /\ ~Progressing(version[1])
    /\ Len(Candidates) = 3
    /\ [k \in DOMAIN Candidates |-> Candidates[k].version] = Example
    /\ version[1].status[1].history = <<>>
    /\ Len(sent) = 1

\* C7: in every submitted patch desiredUpdate.force is the configured force
\* flag, whatever force value the selected candidate carried.
C7_ForceOverride ==
    \A i \in DOMAIN sent : Requested(sent[i]).force = options.force

C7_Witness ==
    /\ Len(sent) = 1
    /\ \E k \in DOMAIN Candidates :
          /\ Candidates[k].image = Requested(sent[1]).image
          /\ Candidates[k].force # options.force
    /\ options.force

\* C8: a cycle whose snapshot has no status, no availableUpdates or an empty
\* availableUpdates submits no patch and produces no error: the decision,
\* when it runs, returns Ok.
C8_AbsenceTolerance ==
    (pc = "end" /\ IsSome(version) /\ Len(Candidates) = 0)
        => /\ sent = <<>>
           /\ ret # "Err"
           /\ ~Progressing(version[1]) => ret = "Ok"
           /\ \A i \in DOMAIN log : log[i].level # "error" \/ (i = 1 /\ PollFailed)

C8_Witness ==
    /\ pc = "end" /\ IsSome(version)
    /\ IsSome(version[1].status)
    /\ version[1].status[1].available_updates = Some(<<>>)
    /\ ret = "Ok"

\* C9: every patch the controller constructs has no status, also when the
\* snapshot it was built from had one.
C9_StatusOmitted ==
    \A i \in DOMAIN sent : sent[i].body.status = None

C9_Witness ==
    /\ Len(sent) = 1
    /\ IsSome(version[1].status)
    /\ Len(version[1].status[1].history) > 0

\* Positions of the candidates of maximum version.
MaxPositions ==
    { k \in DOMAIN Candidates :
        \A j \in DOMAIN Candidates :
            VersionCmp(Candidates[j].version, Candidates[k].version) # "Greater" }

\* Several candidates share the maximum version and differ in image.
TiedMaximum ==
    \E j, k \in MaxPositions : Candidates[j].image # Candidates[k].image

FirstOf(S) == CHOOSE k \in S : \A j \in S : k <= j
LastOf(S) == CHOOSE k \in S : \A j \in S : k >= j

\* C12 as stated: when several candidates share the maximum version and
\* differ in image, the patch carries the image of the first of them.
C12_FirstMaximum ==
    \A i \in DOMAIN sent :
        TiedMaximum => Requested(sent[i]).image = Candidates[FirstOf(MaxPositions)].image

\* C12 amended: when several candidates share the maximum version and
\* differ in image, the patch carries the image of the last of them in
\* sequence order.
C12_LastMaximum ==
    \A i \in DOMAIN sent :
        TiedMaximum => Requested(sent[i]).image = Candidates[LastOf(MaxPositions)].image

\* two maxima with different images, followed by a lower version
C12_Witness ==
    /\ Len(sent) = 1
    /\ Len(Candidates) = 3
    /\ MaxPositions = {1, 2}
    /\ TiedMaximum
    /\ Requested(sent[1]).image = Candidates[2].image

\* C13: cycles run one after another; in every cycle poll is called once
\* and first, read is called next also when poll failed, a patch is
\* submitted only after the read of the same cycle succeeded, and a cycle
\* whose read failed submits no patch.
C13_CycleOrdering ==
    /\ calls \in { <<>>, <<"poll">>, <<"poll", "read">>, <<"poll", "read", "patch">> }
    /\ pc \in {"start", "poll"} => (calls = <<>> /\ sent = <<>>)
    /\ pc = "read" => calls = <<"poll">>
    /\ pc \in {"check", "apply", "end"} => Len(calls) >= 2
    /\ Len(calls) = 3 => (IsSome(version) /\ Len(sent) = 1)
    /\ outcome = "read_failed" => (sent = <<>> /\ calls = <<"poll", "read">>)

C13_Witness ==
    /\ PollFailed
    /\ outcome = "submitted"
    /\ calls = <<"poll", "read", "patch">>

\* C14: every cycle makes at most one patch submission attempt, and when
\* that attempt fails the cycle ends without a second attempt.
C14_AtMostOneSubmission ==
    /\ Len(sent) <= 1
    /\ Cardinality({ i \in DOMAIN calls : calls[i] = "patch" }) <= 1
    /\ outcome = "submit_failed" => (pc = "end" /\ Len(sent) = 1 /\ ret = "Err")

C14_Witness ==
    /\ pc = "end"
    /\ outcome = "submit_failed"
    /\ ~PollFailed
    /\ Len(sent) = 1

\* The last element of what the cache returned in this cycle.
LastRead == reflector[Len(reflector)]

CandidatesOf(v) ==
    IF IsSome(v.status) /\ IsSome(v.status[1].available_updates)
    THEN v.status[1].available_updates[1] ELSE <<>>

\* C16: when the read returns one or more resources, the in-progress check
\* and the selection are made on the last of them, and that element alone
\* decides whether a patch is submitted and what it contains.
C16_LastElementDecides ==
    /\ IsSome(version) => (reflector # <<>> /\ version[1] = LastRead)
    /\ (pc = "end" /\ IsSome(version)) =>
          /\ Progressing(LastRead) => (outcome = "in_progress" /\ sent = <<>>)
          /\ (~Progressing(LastRead) /\ CandidatesOf(LastRead) = <<>>)
                => (outcome = "nothing_to_do" /\ sent = <<>>)
          /\ (~Progressing(LastRead) /\ CandidatesOf(LastRead) # <<>>)
                => /\ Len(sent) = 1
                   /\ sent[1].body.metadata = LastRead.metadata
                   /\ \E k \in DOMAIN CandidatesOf(LastRead) :
                         /\ CandidatesOf(LastRead)[k].image = Requested(sent[1]).image
                         /\ CandidatesOf(LastRead)[k].version = Requested(sent[1]).version

\* two resources read: the first has an update in progress, the last is idle
C16_Witness ==
    /\ pc = "end"
    /\ Len(reflector) = 2
    /\ Progressing(reflector[1])
    /\ Len(sent) = 1
    /\ Requested(sent[1]).version # Version(4, 2, 0, <<>>)

\* C17: when the read succeeds with an empty sequence the cycle submits no
\* patch and ends, and the next step of main() starts a new cycle, whose
\* first call is the refresh.
C17_EmptyReadSkips ==
    /\ [](outcome = "no_resource"
            => (pc = "end" /\ sent = <<>> /\ version = None
                /\ calls = <<"poll", "read">> /\ ret = "none"))
    /\ [][(outcome = "no_resource" /\ pc' # pc)
            => (pc' = "poll" /\ calls' = <<>> /\ outcome' = "none")]_vars
    /\ [][(pc = "poll" /\ calls' # calls) => calls' = <<"poll">>]_vars

C17_Witness ==
    /\ pc = "end"
    /\ outcome = "no_resource"
    /\ reflector = <<>>
    /\ sent = <<>>

ErrorMessages == { log[i].msg : i \in { j \in DOMAIN log : log[j].level = "error" } }

\* C18 as stated: a cycle that ends on an empty resource set, an absent
\* status or availableUpdates, or an update in progress reports nothing at
\* error level of its own, and error-level reports come only from refresh,
\* read and submission failures.
C18_NoOpsAreNotErrors ==
    /\ ErrorMessages \subseteq { "Failed to poll reflector",
                                 "Failed to read ClusterVersion",
                                 "Failed to apply update" }
    /\ outcome \in {"no_resource", "in_progress", "nothing_to_do"}
          => ErrorMessages \subseteq { "Failed to poll reflector" }

\* C18 amended: a cycle that ends on an absent status, an absent or empty
\* availableUpdates, or an update in progress reports nothing at error level
\* of its own (at most a debug-level event); error-level reports occur only
\* for refresh failure, read failure, an empty resource set and submission
\* failure, each exactly in the cycles where that happened.
C18_ErrorLevelReports ==
    /\ ErrorMessages \subseteq { "Failed to poll reflector",
                                 "Failed to read ClusterVersion",
                                 "Unable to find ClusterVersion",
                                 "Failed to apply update" }
    /\ outcome \in {"in_progress", "nothing_to_do", "submitted"}
          => ErrorMessages \subseteq { "Failed to poll reflector" }
    /\ "Failed to read ClusterVersion" \in ErrorMessages <=> outcome = "read_failed"
    /\ "Unable to find ClusterVersion" \in ErrorMessages <=> outcome = "no_resource"
    /\ "Failed to apply update" \in ErrorMessages <=> outcome = "submit_failed"
    /\ \A i \in DOMAIN log : log[i].level \in {"error", "info", "debug", "trace"}
    /\ outcome \in {"in_progress", "nothing_to_do"}
          => \A i \in DOMAIN log :
                log[i].level \in {"debug", "trace"} \/ (i = 1 /\ PollFailed)

\* a cycle with nothing to do because the resource has no status
C18_Witness ==
    /\ pc = "end"
    /\ outcome = "nothing_to_do"
    /\ IsNone(version[1].status)
    /\ ErrorMessages = {}

\* C19: every submitted patch is addressed to the name "version", carries
\* the type and identity metadata of the resource read in the cycle
\* unchanged, and its spec holds only desiredUpdate, set to the selected
\* update.
C19_PatchFrame ==
    \A i \in DOMAIN sent :
        /\ sent[i].name = "version"
        /\ sent[i].body.types = version[1].types
        /\ sent[i].body.metadata = version[1].metadata
        /\ DOMAIN sent[i].body.spec = {"desired_update"}
        /\ Len(sent[i].body.spec.desired_update) = 1
        /\ \E k \in MaxPositions :
              Requested(sent[i]) = [Candidates[k] EXCEPT !.force = options.force]

\* the resource read already had another desiredUpdate, which the patch replaces
C19_Witness ==
    /\ Len(sent) = 1
    /\ IsSome(version[1].spec.desired_update)
    /\ version[1].spec.desired_update[1].version # Requested(sent[1]).version
    /\ sent[1].body.metadata.uid = "cv"

\* C15: after a cycle whose submission failed, the next cycle that reads a
\* resource with the same availableUpdates and no update in progress submits
\* the same update again (same version, image and force).
C15_Resubmits ==
    (/\ pc = "end"
     /\ IsSome(failed)
     /\ IsSome(version)
     /\ AvailableUpdates(version[1]) = failed[1].available_updates
     /\ ~Progressing(version[1]))
        => /\ Len(sent) = 1
           /\ Requested(sent[1]).version = Requested(failed[1].request).version
           /\ Requested(sent[1]).image = Requested(failed[1].request).image
           /\ Requested(sent[1]).force = Requested(failed[1].request).force

\* the resubmission, after an update started and completed in between
C15_Witness ==
    /\ pc = "end"
    /\ IsSome(failed)
    /\ IsSome(version)
    /\ ~Progressing(version[1])
    /\ Len(version[1].status[1].history) > 0
    /\ Len(sent) = 1
    /\ Requested(sent[1]) = Requested(failed[1].request)

\* C10: once startup has succeeded, after a cycle with any outcome (read
\* failure, empty read, in-progress skip, nothing to do, submission failure
\* or success), and after a failed refresh, a next cycle eventually begins.
C10_LoopContinues == (outcome \in CycleOutcomes \/ PollFailed) ~> NewCycle

C10_Witness == pc = "end" /\ outcome = "submit_failed" /\ PollFailed

====
